---- MODULE Spec2Model ----
(***************************************************************************)
(* Model of src/src/ca_client/ca/ca.cpp: the extension module ca_client.ca *)
(* that publishes EPICS_EPOCH and the five enum/flag types Severity,       *)
(* Status, Type, AccessRights and Events.                                  *)
(*                                                                         *)
(* PyInit_ca and add_enum<EnumDef> are modelled call by call: every call   *)
(* into the host runtime is one step whose outcome (success or failure) is *)
(* chosen by the runtime.  The model keeps the references the code owns,   *)
(* the runtime's pending-error indicator, and the attributes attached to   *)
(* the module object.                                                      *)
(***************************************************************************)
EXTENDS Integers, Sequences, FiniteSets, TLC

VARIABLES
    pc,           \* position in PyInit_ca / add_enum
    dbe,          \* the library's DBE_* event masks (fixed by the build)
    module,       \* PyObject* module: "null" or the module object
    enum_module,  \* PyObject* enum_module
    enum_class,   \* PyObject* enum_class
    flag_class,   \* PyObject* flag_class
    attrs,        \* attributes attached to the module object
    k,            \* number of the group add_enum is working on (0: none yet)
    i,            \* loop index of add_enum
    list,         \* add_enum's pair list: null or a list object
    type,         \* add_enum's constructed type: null or a type object
    doc_str,      \* add_enum's documentation string: "null" or "str"
    err,          \* the runtime's pending-error indicator
    owned,        \* strong references owned by this code, per object
    acquired,     \* history: PyInit_ca's references in order of acquisition
    releases,     \* history: PyInit_ca's references in order of release
    lookups,      \* history: lookups made in the enum facility, with outcome
    failedAt,     \* history: the first call whose failure was not survived
    docFailed,    \* history: groups whose documentation could not be attached
    result        \* what PyInit_ca returned: "none" (running), "module", "null"

vars == <<pc, dbe, module, enum_module, enum_class, flag_class, attrs, k, i,
          list, type, doc_str, err, owned, acquired, releases, lookups,
          failedAt, docFailed, result>>

(***************************************************************************)
(* Sizes of the tables the client library supplies (alarm.h, db_access.h)  *)
(* and the number of bit positions its event masks are drawn from.         *)
(***************************************************************************)
ALARM_NSTATUS == 3
ALARM_NSEV == 2
dbf_text_dim == 5
NumDbeBits == 4

POSIX_TIME_AT_EPICS_EPOCH == 631152000

(***************************************************************************)
(* Integer helpers.                                                        *)
(***************************************************************************)
RECURSIVE Pow2(_)
Pow2(n) == IF n = 0 THEN 1 ELSE 2 * Pow2(n - 1)

\* bitwise OR of two naturals (operator | of the Events table)
RECURSIVE BitOr(_, _)
BitOr(a, b) ==
    IF a = 0 THEN b
    ELSE IF b = 0 THEN a
    ELSE (IF a % 2 = 1 \/ b % 2 = 1 THEN 1 ELSE 0) + 2 * BitOr(a \div 2, b \div 2)

\* format unit "i" of Py_BuildValue reads a C int: a value out of the range
\* of int wraps around (once, for the values a long table entry can hold here)
INT_MAX == 2147483647

CInt(v) ==
    IF v > INT_MAX THEN (v - INT_MAX) - INT_MAX - 2
    ELSE IF v < (-INT_MAX) - 1 THEN (v + INT_MAX) + INT_MAX + 2
    ELSE v

(***************************************************************************)
(* The five EnumDef structs.                                               *)
(***************************************************************************)
\* the registrations in the order the structs are declared in the file
GroupsInDeclarationOrder == <<"Status", "Severity", "Type", "AccessRights", "Events">>

\* the groups in the order PyInit_ca registers them
Groups == <<"Severity", "Status", "Type", "AccessRights", "Events">>

NumGroups == Len(Groups)

\* names of the library's string tables are library data: entry j of table t
\* is the string LibString(t, j)
LibString(t, j) == <<t, j>>

\* dbf_text[j]: every name of the table starts with the 4 characters "DBF_"
dbf_text(j) == <<"D", "B", "F", "_", LibString("dbf_text", j)>>

dbf_text_invalid == <<"D", "B", "F", "_", "invalid">>

dbf_type_to_text(t) ==
    IF t >= -1 /\ t < dbf_text_dim - 2 THEN dbf_text(t + 1) ELSE dbf_text_invalid

AccessRightsEntries ==
    << <<"NO_ACCESS", 0>>,
       <<"READ_ACCESS", 1>>,
       <<"WRITE_ACCESS", 2>>,
       <<"RW_ACCESS", 3>> >>

\* the Events table with DBE_PROPERTY left out of ALL
EventsEntriesWithoutProperty(d) ==
    << <<"NONE", 0>>,
       <<"VALUE", d.VALUE>>,
       <<"ARCHIVE", d.ARCHIVE>>,
       <<"ALARM", d.ALARM>>,
       <<"PROPERTY", d.PROPERTY>>,
       <<"ALL", BitOr(BitOr(d.VALUE, d.ARCHIVE), d.ALARM)>> >>

EventsEntries(d) ==
    << <<"NONE", 0>>,
       <<"VALUE", d.VALUE>>,
       <<"ARCHIVE", d.ARCHIVE>>,
       <<"ALARM", d.ALARM>>,
       <<"PROPERTY", d.PROPERTY>>,
       <<"ALL", BitOr(BitOr(BitOr(d.VALUE, d.ARCHIVE), d.ALARM), d.PROPERTY)>> >>

\* EnumDef::count()
count(g) ==
    CASE g = "Status" -> ALARM_NSTATUS
      [] g = "Severity" -> ALARM_NSEV
      [] g = "Type" -> dbf_text_dim - 2
      [] g = "AccessRights" -> Len(AccessRightsEntries)
      [] g = "Events" -> Len(EventsEntries(dbe))

\* EnumDef::text(i), for the C index i (0-based)
text(g, n) ==
    CASE g = "Status" -> LibString("epicsAlarmConditionStrings", n)
      [] g = "Severity" -> LibString("epicsAlarmSeverityStrings", n)
      [] g = "Type" -> SubSeq(dbf_type_to_text(n), 5, Len(dbf_type_to_text(n)))
      [] g = "AccessRights" -> AccessRightsEntries[n + 1][1]
      [] g = "Events" -> EventsEntries(dbe)[n + 1][1]

\* EnumDef::value(i), for the C index i (0-based)
value(g, n) ==
    CASE g = "Status" -> n
      [] g = "Severity" -> n
      [] g = "Type" -> n
      [] g = "AccessRights" -> AccessRightsEntries[n + 1][2]
      [] g = "Events" -> EventsEntries(dbe)[n + 1][2]

\* the constructor PyInit_ca passes to add_enum for group number n
type_class(n) == IF n <= 3 THEN enum_class ELSE flag_class

\* EnumDef::doc: every group has a documentation string (PyDoc_STRVAR)
doc(g) ==
    CASE g = "Status" -> "status__doc__"
      [] g = "Severity" -> "severity__doc__"
      [] g = "Type" -> "field_type__doc__"
      [] g = "AccessRights" -> "access_rights__doc__"
      [] g = "Events" -> "trigger__doc__"

(***************************************************************************)
(* References and the error indicator.                                     *)
(***************************************************************************)
Objects ==
    {"module", "enum_module", "enum_class", "flag_class", "list", "type", "doc_str"}

\* a call returned a new reference to object o
NewRef(o) == [owned EXCEPT ![o] = @ + 1]

\* Py_DECREF(o), or a call that steals the reference to o
DropRef(o) == [owned EXCEPT ![o] = @ - 1]

\* Py_DECREF in place of Py_XDECREF: releases the pointer without testing it
Py_DECREF_Unconditional(log, o, ptr) == Append(log, o)

\* Py_XDECREF(ptr) of the cleanup path: releases only a pointer that is set
Py_XDECREF(log, o, ptr) == IF ptr # "null" THEN Append(log, o) ELSE log

\* `goto error` after the call named what failed (in group number n, 0: none)
GotoError(what, n) ==
    /\ err' = TRUE
    /\ failedAt' = [call |-> what, group |-> n]
    /\ pc' = "error"

\* Py_BuildValue("(si)", text, value)
Py_BuildValue(t, v) == <<t, CInt(v)>>

\* a null PyObject* where the model keeps the object itself
NullObject == [kind |-> "null"]

\* PyList_New(n): a list of n slots, all of them NULL
PyList_New(n) == [kind |-> "list", items |-> [j \in 1..n |-> <<>>]]

\* PyList_SET_ITEM with the slot index off by one
PyList_SET_ITEM_OffByOne(l, n, entry) ==
    IF n = 0 THEN l ELSE [l EXCEPT !.items[n] = entry]

\* PyList_SET_ITEM(l, n, entry), for the C index n (0-based)
PyList_SET_ITEM(l, n, entry) == [l EXCEPT !.items[n + 1] = entry]

\* the type a constructor returns for a name and a pair sequence
NewType(ctor, name, pairs) ==
    [kind |-> "type", name |-> name, ctor |-> ctor, members |-> pairs,
     doc |-> "null"]

\* the object PyModule_AddIntConstant attaches
IntObject(v) == [kind |-> "int", value |-> v]

\* the module's attributes after name has been set to obj
SetAttr(ns, name, obj) ==
    [n \in (DOMAIN ns) \cup {name} |-> IF n = name THEN obj ELSE ns[n]]

\* any assignment of distinct single bits to the four library masks
DbeAssignments ==
    {d \in [VALUE : {Pow2(b) : b \in 0..(NumDbeBits - 1)},
            ARCHIVE : {Pow2(b) : b \in 0..(NumDbeBits - 1)},
            ALARM : {Pow2(b) : b \in 0..(NumDbeBits - 1)},
            PROPERTY : {Pow2(b) : b \in 0..(NumDbeBits - 1)}] :
        Cardinality({d.VALUE, d.ARCHIVE, d.ALARM, d.PROPERTY}) = 4}

Init ==
    /\ pc = "create"
    /\ dbe \in DbeAssignments
    /\ module = "null"
    /\ enum_module = "null"
    /\ enum_class = "null"
    /\ flag_class = "null"
    /\ attrs = <<>>
    /\ k = 0
    /\ i = 0
    /\ list = NullObject
    /\ type = NullObject
    /\ doc_str = "null"
    /\ err = FALSE
    /\ owned = [o \in Objects |-> 0]
    /\ acquired = <<>>
    /\ releases = <<>>
    /\ lookups = <<>>
    /\ failedAt = [call |-> "none", group |-> 0]
    /\ docFailed = {}
    /\ result = "none"

(***************************************************************************)
(* PyInit_ca, up to the first registration.                                *)
(***************************************************************************)
\* module = PyModule_Create(&ca::module); if (not module) goto error;
ModuleCreate ==
    /\ pc = "create"
    /\ \/ /\ module' = "module_obj"
          /\ owned' = NewRef("module")
          /\ acquired' = Append(acquired, "module")
          /\ pc' = "epoch"
          /\ UNCHANGED <<err, failedAt>>
       \/ /\ GotoError("PyModule_Create", 0)
          /\ UNCHANGED <<module, owned, acquired>>
    /\ UNCHANGED <<dbe, enum_module, enum_class, flag_class, attrs, k, i, list,
                   type, doc_str, releases, lookups, docFailed, result>>

\* AddIntConstant with the return value of PyModule_AddIntConstant ignored
AddIntConstantUnchecked ==
    /\ pc = "epoch"
    /\ \/ /\ attrs' = SetAttr(attrs, "EPICS_EPOCH", IntObject(POSIX_TIME_AT_EPICS_EPOCH))
          /\ UNCHANGED err
       \/ /\ err' = TRUE
          /\ UNCHANGED attrs
    /\ pc' = "import"
    /\ UNCHANGED <<dbe, module, enum_module, enum_class, flag_class, k, i, list,
                   type, doc_str, owned, acquired, releases, lookups, failedAt,
                   docFailed, result>>

\* if (PyModule_AddIntConstant(module, "EPICS_EPOCH", ...) != 0) goto error;
AddIntConstant ==
    /\ pc = "epoch"
    /\ \/ /\ attrs' = SetAttr(attrs, "EPICS_EPOCH", IntObject(POSIX_TIME_AT_EPICS_EPOCH))
          /\ pc' = "import"
          /\ UNCHANGED <<err, failedAt>>
       \/ /\ GotoError("PyModule_AddIntConstant", 0)
          /\ UNCHANGED attrs
    /\ UNCHANGED <<dbe, module, enum_module, enum_class, flag_class, k, i, list,
                   type, doc_str, owned, acquired, releases, lookups, docFailed,
                   result>>

\* enum_module = PyImport_ImportModule("enum"); if (not enum_module) goto error;
ImportEnum ==
    /\ pc = "import"
    /\ \/ /\ enum_module' = "enum"
          /\ owned' = NewRef("enum_module")
          /\ acquired' = Append(acquired, "enum_module")
          /\ lookups' = Append(lookups, <<"enum", TRUE>>)
          /\ pc' = "get_enum"
          /\ UNCHANGED <<err, failedAt>>
       \/ /\ GotoError("PyImport_ImportModule", 0)
          /\ lookups' = Append(lookups, <<"enum", FALSE>>)
          /\ UNCHANGED <<enum_module, owned, acquired>>
    /\ UNCHANGED <<dbe, module, enum_class, flag_class, attrs, k, i, list, type,
                   doc_str, releases, docFailed, result>>

\* enum_class = PyObject_GetAttrString(enum_module, "Enum");
\* if (not enum_class) goto error;
GetEnumClass ==
    /\ pc = "get_enum"
    /\ \/ /\ enum_class' = "Enum"
          /\ owned' = NewRef("enum_class")
          /\ acquired' = Append(acquired, "enum_class")
          /\ lookups' = Append(lookups, <<"Enum", TRUE>>)
          /\ pc' = "get_flag"
          /\ UNCHANGED <<err, failedAt>>
       \/ /\ GotoError("PyObject_GetAttrString", 0)
          /\ lookups' = Append(lookups, <<"Enum", FALSE>>)
          /\ UNCHANGED <<enum_class, owned, acquired>>
    /\ UNCHANGED <<dbe, module, enum_module, flag_class, attrs, k, i, list, type,
                   doc_str, releases, docFailed, result>>

\* GetFlagClass without the fallback: a missing Flag is fatal
GetFlagClassNoFallback ==
    /\ pc = "get_flag"
    /\ \/ /\ flag_class' = "Flag"
          /\ owned' = NewRef("flag_class")
          /\ acquired' = Append(acquired, "flag_class")
          /\ lookups' = Append(lookups, <<"Flag", TRUE>>)
          /\ pc' = "list_new"
          /\ k' = 1
          /\ UNCHANGED <<err, failedAt>>
       \/ /\ GotoError("PyObject_GetAttrString", 0)
          /\ lookups' = Append(lookups, <<"Flag", FALSE>>)
          /\ UNCHANGED <<flag_class, owned, acquired, k>>
    /\ UNCHANGED <<dbe, module, enum_module, enum_class, attrs, i, list, type,
                   doc_str, releases, docFailed, result>>

\* flag_class = PyObject_GetAttrString(enum_module, "Flag");
\* if (not flag_class) { ... } else the first add_enum call follows
GetFlagClass ==
    /\ pc = "get_flag"
    /\ \/ /\ flag_class' = "Flag"
          /\ owned' = NewRef("flag_class")
          /\ acquired' = Append(acquired, "flag_class")
          /\ lookups' = Append(lookups, <<"Flag", TRUE>>)
          /\ pc' = "list_new"
          /\ k' = 1
          /\ UNCHANGED err
       \/ /\ err' = TRUE
          /\ lookups' = Append(lookups, <<"Flag", FALSE>>)
          /\ pc' = "clear"
          /\ UNCHANGED <<flag_class, owned, acquired, k>>
    /\ UNCHANGED <<dbe, module, enum_module, enum_class, attrs, i, list, type,
                   doc_str, releases, failedAt, docFailed, result>>

\* PyErr_Clear();
ErrClear ==
    /\ pc = "clear"
    /\ err' = FALSE
    /\ pc' = "get_intenum"
    /\ UNCHANGED <<dbe, module, enum_module, enum_class, flag_class, attrs, k, i,
                   list, type, doc_str, owned, acquired, releases, lookups,
                   failedAt, docFailed, result>>

\* flag_class = PyObject_GetAttrString(enum_module, "IntEnum");
\* if (not flag_class) goto error;
GetIntEnum ==
    /\ pc = "get_intenum"
    /\ \/ /\ flag_class' = "IntEnum"
          /\ owned' = NewRef("flag_class")
          /\ acquired' = Append(acquired, "flag_class")
          /\ lookups' = Append(lookups, <<"IntEnum", TRUE>>)
          /\ pc' = "list_new"
          /\ k' = 1
          /\ UNCHANGED <<err, failedAt>>
       \/ /\ GotoError("PyObject_GetAttrString", 0)
          /\ lookups' = Append(lookups, <<"IntEnum", FALSE>>)
          /\ UNCHANGED <<flag_class, owned, acquired, k>>
    /\ UNCHANGED <<dbe, module, enum_module, enum_class, attrs, i, list, type,
                   doc_str, releases, docFailed, result>>

(***************************************************************************)
(* add_enum<EnumDef>(module, type_class), for group number k, and the      *)
(* `if (not ca::add_enum<...>(...)) goto error;` around it.                *)
(***************************************************************************)
\* where PyInit_ca continues when add_enum for group number n returned true
AfterGroup(n) == IF n < NumGroups THEN "list_new" ELSE "release"

\* PyObject* list = PyList_New(count); if (not list) return false;
ListNew ==
    /\ pc = "list_new"
    /\ \/ /\ list' = PyList_New(count(Groups[k]))
          /\ owned' = NewRef("list")
          /\ i' = 0
          /\ pc' = IF 0 < count(Groups[k]) THEN "build" ELSE "call"
          /\ UNCHANGED <<err, failedAt>>
       \/ /\ GotoError("PyList_New", k)
          /\ UNCHANGED <<list, owned, i>>
    /\ UNCHANGED <<dbe, module, enum_module, enum_class, flag_class, attrs, k,
                   type, doc_str, acquired, releases, lookups, docFailed, result>>

\* one turn of the loop: entry = Py_BuildValue(...); if (not entry)
\* { Py_DECREF(list); return false; }  PyList_SET_ITEM(list, i, entry);
BuildEntry ==
    /\ pc = "build"
    /\ i < count(Groups[k])
    /\ \/ /\ list' = PyList_SET_ITEM(list, i,
                        Py_BuildValue(text(Groups[k], i), value(Groups[k], i)))
          /\ i' = i + 1
          /\ pc' = IF i + 1 < count(Groups[k]) THEN "build" ELSE "call"
          /\ UNCHANGED <<owned, err, failedAt>>
       \/ /\ owned' = DropRef("list")
          /\ list' = NullObject
          /\ GotoError("Py_BuildValue", k)
          /\ UNCHANGED i
    /\ UNCHANGED <<dbe, module, enum_module, enum_class, flag_class, attrs, k,
                   type, doc_str, acquired, releases, lookups, docFailed, result>>

\* type = PyObject_CallFunction(type_class, "sN", EnumDef::name, list);
\* if (not type) return false;   ("N" hands the list reference to the call)
CallType ==
    /\ pc = "call"
    /\ \/ /\ type' = NewType(type_class(k), Groups[k], list.items)
          /\ owned' = [owned EXCEPT !["list"] = @ - 1, !["type"] = @ + 1]
          /\ pc' = IF doc(Groups[k]) # "null" THEN "doc_str" ELSE "install"
          /\ UNCHANGED <<err, failedAt>>
       \/ /\ owned' = DropRef("list")
          /\ GotoError("PyObject_CallFunction", k)
          /\ UNCHANGED type
    /\ list' = NullObject
    /\ UNCHANGED <<dbe, module, enum_module, enum_class, flag_class, attrs, k, i,
                   doc_str, acquired, releases, lookups, docFailed, result>>

\* DocStr with a failure of PyUnicode_FromString treated as fatal
DocStrFatal ==
    /\ pc = "doc_str"
    /\ \/ /\ doc_str' = "str"
          /\ owned' = NewRef("doc_str")
          /\ pc' = "set_doc"
          /\ UNCHANGED <<err, docFailed, failedAt>>
       \/ /\ GotoError("PyUnicode_FromString", k)
          /\ docFailed' = docFailed \cup {k}
          /\ UNCHANGED <<doc_str, owned>>
    /\ UNCHANGED <<dbe, module, enum_module, enum_class, flag_class, attrs, k, i,
                   list, type, acquired, releases, lookups, result>>

\* PyObject* doc_str = PyUnicode_FromString(EnumDef::doc); if (doc_str) { ... }
DocStr ==
    /\ pc = "doc_str"
    /\ \/ /\ doc_str' = "str"
          /\ owned' = NewRef("doc_str")
          /\ pc' = "set_doc"
          /\ UNCHANGED <<err, docFailed>>
       \/ /\ err' = TRUE
          /\ docFailed' = docFailed \cup {k}
          /\ pc' = "install"
          /\ UNCHANGED <<doc_str, owned>>
    /\ UNCHANGED <<dbe, module, enum_module, enum_class, flag_class, attrs, k, i,
                   list, type, acquired, releases, lookups, failedAt, result>>

\* PyObject_SetAttrString(type, "__doc__", doc_str); Py_DECREF(doc_str);
SetDoc ==
    /\ pc = "set_doc"
    /\ \/ /\ type' = [type EXCEPT !.doc = doc(Groups[k])]
          /\ UNCHANGED <<err, docFailed>>
       \/ /\ err' = TRUE
          /\ docFailed' = docFailed \cup {k}
          /\ UNCHANGED type
    /\ owned' = DropRef("doc_str")
    /\ doc_str' = "null"
    /\ pc' = "install"
    /\ UNCHANGED <<dbe, module, enum_module, enum_class, flag_class, attrs, k, i,
                   list, acquired, releases, lookups, failedAt, result>>

\* Install with the attribute left on the module when the failure is reported
InstallLeavesAttribute ==
    /\ pc = "install"
    /\ attrs' = SetAttr(attrs, Groups[k], type)
    /\ \/ /\ owned' = DropRef("type")
          /\ type' = NullObject
          /\ pc' = IF k < NumGroups THEN "list_new" ELSE "release"
          /\ k' = IF k < NumGroups THEN k + 1 ELSE k
          /\ UNCHANGED <<err, failedAt>>
       \/ /\ GotoError("PyModule_AddObject", k)
          /\ UNCHANGED <<owned, type, k>>
    /\ UNCHANGED <<dbe, module, enum_module, enum_class, flag_class, i, list,
                   doc_str, acquired, releases, lookups, docFailed, result>>

\* if (PyModule_AddObject(module, EnumDef::name, type) != 0)
\* { PyErr_Format(...); return false; }  return true;
\* PyModule_AddObject takes over the reference to type only when it succeeds.
Install ==
    /\ pc = "install"
    /\ \/ /\ attrs' = SetAttr(attrs, Groups[k], type)
          /\ owned' = DropRef("type")
          /\ type' = NullObject
          /\ pc' = AfterGroup(k)
          /\ k' = IF k < NumGroups THEN k + 1 ELSE k
          /\ UNCHANGED <<err, failedAt>>
       \/ /\ GotoError("PyModule_AddObject", k)
          /\ UNCHANGED <<attrs, owned, type, k>>
    /\ UNCHANGED <<dbe, module, enum_module, enum_class, flag_class, i, list,
                   doc_str, acquired, releases, lookups, docFailed, result>>

(***************************************************************************)
(* The two ways out of PyInit_ca.                                          *)
(***************************************************************************)
\* Py_DECREF(flag_class); Py_DECREF(enum_class); Py_DECREF(enum_module);
\* return module;
ReleaseOnSuccess ==
    /\ pc = "release"
    /\ releases' = releases \o <<"flag_class", "enum_class", "enum_module">>
    /\ owned' = [owned EXCEPT !["flag_class"] = @ - 1,
                              !["enum_class"] = @ - 1,
                              !["enum_module"] = @ - 1]
    /\ result' = "module"
    /\ pc' = "done"
    /\ UNCHANGED <<dbe, module, enum_module, enum_class, flag_class, attrs, k, i,
                   list, type, doc_str, err, acquired, lookups, failedAt,
                   docFailed>>

\* the releases of the error label, in the order of the code
CleanupLog(log) ==
    Py_XDECREF(Py_XDECREF(Py_XDECREF(Py_XDECREF(log,
        "flag_class", flag_class),
        "enum_class", enum_class),
        "enum_module", enum_module),
        "module", module)

\* error: Py_XDECREF(flag_class); Py_XDECREF(enum_class);
\* Py_XDECREF(enum_module); Py_XDECREF(module); return nullptr;
ErrorCleanup ==
    /\ pc = "error"
    /\ releases' = CleanupLog(releases)
    /\ owned' = [o \in Objects |->
                    owned[o] - Cardinality({n \in 1..Len(CleanupLog(<<>>)) :
                                               CleanupLog(<<>>)[n] = o})]
    /\ result' = "null"
    /\ pc' = "done"
    /\ UNCHANGED <<dbe, module, enum_module, enum_class, flag_class, attrs, k, i,
                   list, type, doc_str, err, acquired, lookups, failedAt,
                   docFailed>>

Next ==
    \/ ModuleCreate
    \/ AddIntConstant
    \/ ImportEnum
    \/ GetEnumClass
    \/ GetFlagClass
    \/ ErrClear
    \/ GetIntEnum
    \/ ListNew
    \/ BuildEntry
    \/ CallType
    \/ DocStr
    \/ SetDoc
    \/ Install
    \/ ReleaseOnSuccess
    \/ ErrorCleanup

Spec == Init /\ [][Next]_vars

(***************************************************************************)
(* Vocabulary of the properties.                                           *)
(***************************************************************************)
Attached == DOMAIN attrs

GroupNames == {"Severity", "Status", "Type", "AccessRights", "Events"}

\* the call named in failedAt is one of the constructor lookups
LookupFailed ==
    failedAt.call \in {"PyImport_ImportModule", "PyObject_GetAttrString"}

\* the lookup of name n in the enum facility was tried and failed
Missing(n) == \E j \in 1..Len(lookups) : lookups[j] = <<n, FALSE>>

\* the lookup of name n in the enum facility was tried and succeeded
Found(n) == \E j \in 1..Len(lookups) : lookups[j] = <<n, TRUE>>

Reverse(s) == [j \in 1..Len(s) |-> s[Len(s) + 1 - j]]

Occurrences(s, x) == Cardinality({j \in 1..Len(s) : s[j] = x})

\* the underlying value of the member named n of type object t
MemberValue(t, n) ==
    t.members[CHOOSE j \in 1..Len(t.members) : t.members[j][1] = n][2]

\* bit number b of the natural v
Bit(v, b) == (v \div Pow2(b)) % 2


(***************************************************************************)
(* C1: initialization is all-or-nothing.  PyInit_ca returns the module     *)
(* only with EPICS_EPOCH and all five types attached, each of its kind,    *)
(* and keeps the module's reference for the caller; after a failure of     *)
(* any step it returns no module, and when a module had been created its   *)
(* reference is released.                                                  *)
(***************************************************************************)
C1_AllOrNothing ==
    /\ result = "module" =>
          /\ pc = "done"
          /\ Attached = {"EPICS_EPOCH"} \cup GroupNames
          /\ attrs["EPICS_EPOCH"] = IntObject(POSIX_TIME_AT_EPICS_EPOCH)
          /\ \A g \in GroupNames : attrs[g].kind = "type" /\ attrs[g].name = g
          /\ owned["module"] = 1
          /\ Occurrences(releases, "module") = 0
    /\ (pc = "done" /\ (failedAt.call # "none" \/ Attached # {"EPICS_EPOCH"} \cup GroupNames)) =>
          /\ result = "null"
          /\ owned["module"] = 0
          /\ module # "null" => Occurrences(releases, "module") = 1

\* a failed run that had built part of the namespace and released it
C1_Witness ==
    /\ result = "null"
    /\ Attached = {"EPICS_EPOCH", "Severity", "Status", "Type", "AccessRights"}
    /\ owned["module"] = 0

\* the pairs (text(i), value(i)) of group g in index order
PairsOf(g) == [j \in 1..count(g) |-> <<text(g, j - 1), value(g, j - 1)>>]

(***************************************************************************)
(* C2: the pair sequence handed to the type constructor has count()        *)
(* entries, entry i being (text(i), value(i)) in index order, so a type    *)
(* that was produced has exactly these members.                            *)
(***************************************************************************)
C2_PairSequence ==
    /\ pc = "call" => list.items = PairsOf(Groups[k])
    /\ type.kind = "type" =>
          /\ Len(type.members) = count(type.name)
          /\ type.members = PairsOf(type.name)
    /\ \A g \in Attached \cap GroupNames :
          /\ Len(attrs[g].members) = count(g)
          /\ \A n \in 0..(count(g) - 1) :
                attrs[g].members[n + 1] = <<text(g, n), value(g, n)>>

\* all five types are on the module, the last one with its six members
C2_Witness ==
    /\ GroupNames \subseteq Attached
    /\ Len(attrs["Events"].members) = 6
    /\ Len(attrs["Status"].members) = ALARM_NSTATUS

(***************************************************************************)
(* C3: when the registration of group number n fails in building the pair  *)
(* sequence, in constructing the type or in installing it, the module      *)
(* holds exactly EPICS_EPOCH and the n-1 groups registered before, from    *)
(* the failure on and when the failure is reported.                        *)
(***************************************************************************)
C3_NothingAttachedOnFailure ==
    failedAt.group >= 1 =>
        /\ failedAt.call \in {"PyList_New", "Py_BuildValue",
                              "PyObject_CallFunction", "PyModule_AddObject"}
        /\ pc \in {"error", "done"}
        /\ pc = "done" => result = "null"
        /\ Attached = {"EPICS_EPOCH"} \cup
              {<<"Severity", "Status", "Type", "AccessRights", "Events">>[j] :
                  j \in 1..(failedAt.group - 1)}

\* the installation of the third group was rejected and the failure reported
C3_Witness ==
    /\ failedAt = [call |-> "PyModule_AddObject", group |-> 3]
    /\ result = "null"
    /\ Attached = {"EPICS_EPOCH", "Severity", "Status"}

(***************************************************************************)
(* C4: every intermediate object of add_enum (pair list, constructed type, *)
(* documentation string) has been released by the time add_enum returns;   *)
(* in particular the constructed type is discarded when installing it on   *)
(* the module fails.                                                       *)
(***************************************************************************)
C4_IntermediatesReleased ==
    /\ \A o \in Objects : owned[o] >= 0
    /\ pc \in {"list_new", "release", "error", "done"} =>
          owned["list"] = 0 /\ owned["type"] = 0 /\ owned["doc_str"] = 0

(***************************************************************************)
(* C5: a failure to attach the documentation string never aborts the       *)
(* registration: the only step of a group whose documentation failed that  *)
(* can still fail the run is the installation, and a run in which nothing  *)
(* but documentation failed ends with the module returned and all five     *)
(* types attached.                                                         *)
(***************************************************************************)
C5_DocFailureSwallowed ==
    /\ \A n \in docFailed :
          /\ pc \in {"doc_str", "set_doc"} => k # n
          /\ failedAt.group = n => failedAt.call = "PyModule_AddObject"
          /\ (failedAt.group # n /\ (k > n \/ pc \in {"release", "done"})) =>
                Groups[n] \in Attached
    /\ pc = "error" => failedAt.call # "none"
    /\ (pc = "done" /\ failedAt.call = "none") =>
          result = "module" /\ GroupNames \subseteq Attached

\* the module is returned although the documentation of every group failed
C5_Witness ==
    /\ result = "module"
    /\ docFailed = 1..5
    /\ GroupNames \subseteq Attached

(***************************************************************************)
(* C6: a missing Flag constructor is recovered by IntEnum: the run fails   *)
(* in the lookups exactly when the enum module is missing, Enum is         *)
(* missing, or Flag and IntEnum are both missing; Severity, Status and     *)
(* Type are built with Enum, AccessRights and Events with Flag when it was *)
(* found and with IntEnum otherwise.                                       *)
(***************************************************************************)
C6_FlagFallback ==
    /\ LookupFailed <=>
          \/ Missing("enum")
          \/ Missing("Enum")
          \/ Missing("Flag") /\ Missing("IntEnum")
    /\ (Missing("Flag") /\ Found("IntEnum")) => flag_class = "IntEnum"
    /\ \A g \in Attached \cap {"Severity", "Status", "Type"} :
          attrs[g].ctor = "Enum"
    /\ \A g \in Attached \cap {"AccessRights", "Events"} :
          attrs[g].ctor = IF Found("Flag") THEN "Flag" ELSE "IntEnum"

\* the module is returned with both flag groups built by the fallback
C6_Witness ==
    /\ result = "module"
    /\ Missing("Flag")
    /\ attrs["AccessRights"].ctor = "IntEnum"
    /\ attrs["Events"].ctor = "IntEnum"

(***************************************************************************)
(* The state of the module initializer's state machine, read from what has *)
(* been created and attached so far.                                       *)
(***************************************************************************)
StateOrder ==
    <<"Start", "NamespaceCreated", "EpochPublished", "Severity", "Status",
      "Type", "AccessRights", "Events", "Ready">>

State ==
    CASE result = "module" -> "Ready"
      [] result = "null" \/ pc = "error" -> "Failed"
      [] result = "none" /\ pc # "error" /\ module = "null" -> "Start"
      [] result = "none" /\ pc # "error" /\ module # "null" ->
            IF Attached = {} THEN "NamespaceCreated"
            ELSE IF \E n \in 0..5 :
                       Attached = {"EPICS_EPOCH"} \cup {StateOrder[3 + j] : j \in 1..n}
                 THEN StateOrder[3 + (Cardinality(Attached) - 1)]
                 ELSE "Invalid"

Position(st) == CHOOSE n \in 1..Len(StateOrder) : StateOrder[n] = st

\* the calls of PyInit_ca and add_enum whose failure is fatal
FatalCallSites ==
    {"create", "epoch", "import", "get_enum", "get_intenum", "list_new",
     "build", "call", "install"}

(***************************************************************************)
(* C7, the steps: a run moves through Start, NamespaceCreated,             *)
(* EpochPublished, Severity, Status, Type, AccessRights, Events, Ready in  *)
(* this order, one state at a time, or leaves a non-terminal state for     *)
(* Failed; the constructors are looked up once each, before the first      *)
(* registration, and kept from then on; no step leaves Ready or Failed.    *)
(***************************************************************************)
C7_StepOrder ==
    /\ State # "Invalid"
    /\ State' # "Invalid"
    /\ result = "none"
    /\ \/ State' = State
       \/ State' = "Failed" /\ State \notin {"Ready", "Failed"}
       \/ /\ State \notin {"Ready", "Failed"}
          /\ State' # "Failed"
          /\ Position(State') = Position(State) + 1
    /\ lookups' # lookups =>
          /\ State = "EpochPublished"
          /\ k = 0
          /\ Len(lookups') = Len(lookups) + 1
          /\ \A j \in 1..Len(lookups) : lookups[j][1] # lookups'[Len(lookups')][1]
    /\ (k = 0 /\ k' = 1) => (enum_class' = "Enum" /\ flag_class' \in {"Flag", "IntEnum"})
    /\ k # 0 => UNCHANGED <<enum_module, enum_class, flag_class>>

\* C7, the states: the run has returned exactly in Ready and Failed, nothing
\* is enabled after the return, and every call whose failure is fatal (one in
\* each of the steps create, publish, look up, register) can go to Failed
C7_Invariant ==
    /\ pc = "done" <=> State \in {"Ready", "Failed"} /\ result # "none"
    /\ pc = "done" => ~ENABLED Next
    /\ pc \in FatalCallSites => ENABLED (Next /\ pc' = "error")
    /\ pc # "done" => ENABLED Next

\* C7: the initializer's states are passed in the fixed order, the epoch
\* before any group and each group after all earlier ones, the constructors
\* are resolved once before the first registration, Failed is reachable from
\* every step, and Ready and Failed are terminal
C7_FixedOrder == [][C7_StepOrder]_vars /\ []C7_Invariant

\* a successful run: everything attached, constructors looked up, Ready
C7_Witness ==
    /\ State = "Ready"
    /\ Len(lookups) >= 3
    /\ Attached = {"EPICS_EPOCH"} \cup GroupNames

(***************************************************************************)
(* C8: on the produced flag types the union member is the bitwise OR of    *)
(* the single-bit members: RW_ACCESS = READ_ACCESS | WRITE_ACCESS = 3 and  *)
(* NO_ACCESS = 0 on AccessRights; ALL = VALUE | ARCHIVE | ALARM | PROPERTY *)
(* and NONE = 0 on Events, whatever distinct bits the library assigns.     *)
(***************************************************************************)
C8_FlagUnions ==
    /\ "AccessRights" \in Attached =>
          /\ MemberValue(attrs["AccessRights"], "NO_ACCESS") = 0
          /\ MemberValue(attrs["AccessRights"], "READ_ACCESS") = 1
          /\ MemberValue(attrs["AccessRights"], "WRITE_ACCESS") = 2
          /\ MemberValue(attrs["AccessRights"], "RW_ACCESS") = 3
          /\ \A b \in 0..2 :
                Bit(MemberValue(attrs["AccessRights"], "RW_ACCESS"), b) = 1 <=>
                   \/ Bit(MemberValue(attrs["AccessRights"], "READ_ACCESS"), b) = 1
                   \/ Bit(MemberValue(attrs["AccessRights"], "WRITE_ACCESS"), b) = 1
    /\ "Events" \in Attached =>
          /\ MemberValue(attrs["Events"], "NONE") = 0
          /\ \A n \in {"VALUE", "ARCHIVE", "ALARM", "PROPERTY"} :
                MemberValue(attrs["Events"], n) = dbe[n]
          /\ \A b \in 0..(NumDbeBits + 1) :
                Bit(MemberValue(attrs["Events"], "ALL"), b) = 1 <=>
                   \E n \in {"VALUE", "ARCHIVE", "ALARM", "PROPERTY"} :
                      Bit(MemberValue(attrs["Events"], n), b) = 1

\* the event type is on the module with the masks in another order than
\* the library's own
C8_Witness ==
    /\ result = "module"
    /\ dbe.PROPERTY < dbe.VALUE
    /\ MemberValue(attrs["Events"], "ALL") =
          dbe.VALUE + dbe.ARCHIVE + dbe.ALARM + dbe.PROPERTY
    /\ MemberValue(attrs["AccessRights"], "RW_ACCESS") = 3

(***************************************************************************)
(* C9: on a failing run each reference PyInit_ca acquired (module, enum    *)
(* module, enum constructor, flag constructor) is released exactly once,   *)
(* in the reverse of the order of acquisition, and nothing else is         *)
(* released; on the successful run the three lookup references are         *)
(* released exactly once and the module's is kept for the caller.          *)
(***************************************************************************)
C9_ReleaseOrder ==
    /\ \A o \in {"module", "enum_module", "enum_class", "flag_class"} :
          /\ Occurrences(acquired, o) <= 1
          /\ Occurrences(releases, o) <= Occurrences(acquired, o)
          /\ owned[o] = Occurrences(acquired, o) - Occurrences(releases, o)
    /\ pc # "done" => releases = <<>>
    /\ result = "null" => releases = Reverse(acquired)
    /\ result = "module" =>
          /\ acquired = <<"module", "enum_module", "enum_class", "flag_class">>
          /\ \A o \in {"enum_module", "enum_class", "flag_class"} :
                Occurrences(releases, o) = 1
          /\ Occurrences(releases, "module") = 0
          /\ owned["module"] = 1

\* a failing run that had acquired the module and the enum module only
C9_Witness ==
    /\ result = "null"
    /\ acquired = <<"module", "enum_module">>
    /\ releases = <<"enum_module", "module">>

(***************************************************************************)
(* C10: the pending-error indicator agrees with the result: no error is    *)
(* pending when PyInit_ca returns the module, and an error is pending when *)
(* it returns failure.                                                     *)
(***************************************************************************)
C10_ErrorIndicator ==
    /\ result = "module" => ~err
    /\ result = "null" => err

====
